---------------------------- MODULE Spec2Model ----------------------------
(***************************************************************************)
(* A model of the BCP47 language registry library:                         *)
(*   - BCP47Language   : one registry record                               *)
(*   - LanguageParser  : the registry text parser (LanguageParser::parse)  *)
(*   - BCP47Languages  : the static index maps, the refresh handler, the   *)
(*                       tag tokenizer (testTag) and the tag builders      *)
(*                                                                         *)
(* A QString is a sequence of one-character strings; QString comparison is *)
(* the lexicographic comparison of the character codes.                    *)
(***************************************************************************)
EXTENDS Integers, Sequences, FiniteSets, TLC

VARIABLES
  \* --- BCP47Languages (the static maps and the instance's file date) ---
  m_datasetByDescription,
  m_languageByDescription, m_languageBySubtag,
  m_extlangByDescription, m_extlangBySubtag,
  m_regionByDescription, m_regionBySubtag,
  m_scriptByDescription, m_scriptBySubtag,
  m_variantByDescription, m_variantBySubtag,
  m_grandfatheredByDescription, m_grandfatheredByTag,
  m_redundantByDescription, m_redundantByTag,
  m_fileDate,
  emitted,      \* the signals the last handler of BCP47Languages emitted
  lastOp,       \* the last handler of BCP47Languages that ran, with its arguments
  allocated,    \* the number of records loadYamlFile has allocated
  call,         \* the last query (testTag, languageTag, ...) and its outcome
  localFile,    \* the content of the local file as saveToLocalFile wrote it
  updatePos,    \* position of updateMaps: 0 outside it, else the next item
  oldView,      \* the index as it was when the running updateMaps started
  \* --- LanguageParser::parse (m_lineNumber and the locals of parse) ---
  m_lineNumber, line, state, dateFound, language, count, languageMap,
  errors, fileDate,
  pc,           \* position of parse: "loop", "done" or "crashed"
  consumed,     \* the lines read so far (history of the input)
  previous,     \* the data and the signals of the first run of parse
  signals       \* the signals parse emitted

indexVars == <<m_languageByDescription, m_languageBySubtag,
               m_extlangByDescription, m_extlangBySubtag,
               m_regionByDescription, m_regionBySubtag,
               m_scriptByDescription, m_scriptBySubtag,
               m_variantByDescription, m_variantBySubtag,
               m_grandfatheredByDescription, m_grandfatheredByTag,
               m_redundantByDescription, m_redundantByTag>>

rebuildVars == <<updatePos, oldView>>

objectVars == <<m_datasetByDescription, indexVars, m_fileDate, emitted, lastOp,
                allocated, localFile, rebuildVars>>

parserVars == <<m_lineNumber, line, state, dateFound, language, count,
                languageMap, errors, fileDate, pc, consumed, signals,
                previous>>

vars == <<objectVars, call, parserVars>>

-----------------------------------------------------------------------------
(* QString *)

\* The characters of the model, in the order of their character codes.
CharOrder ==
  <<"\n", " ", "%", "-", "0", "1", "2", "3", "4", "5", "6", "7", "8", "9", ":",
    "A", "B", "C", "D", "E", "F", "G", "H", "I", "J", "K", "L", "M",
    "N", "O", "P", "Q", "R", "S", "T", "U", "V", "W", "X", "Y", "Z",
    "a", "b", "c", "d", "e", "f", "g", "h", "i", "j", "k", "l", "m",
    "n", "o", "p", "q", "r", "s", "t", "u", "v", "w", "x", "y", "z">>

CharSet == {CharOrder[i] : i \in DOMAIN CharOrder}

Code == [c \in CharSet |-> CHOOSE i \in DOMAIN CharOrder : CharOrder[i] = c]

UpperFirst == Code["A"]
LowerFirst == Code["a"]

\* QChar::toLower
toLowerChar == [c \in CharSet |->
                  IF Code[c] >= UpperFirst /\ Code[c] < LowerFirst
                    THEN CharOrder[Code[c] - UpperFirst + LowerFirst]
                    ELSE c]

\* QString::toLower
toLower(s) == [i \in DOMAIN s |-> toLowerChar[s[i]]]

\* QString operator< : lexicographic on the character codes
RECURSIVE StrLess(_, _)
StrLess(a, b) ==
  IF b = <<>> THEN FALSE
  ELSE IF a = <<>> THEN TRUE
  ELSE IF Code[Head(a)] < Code[Head(b)] THEN TRUE
  ELSE IF Code[Head(a)] > Code[Head(b)] THEN FALSE
  ELSE StrLess(Tail(a), Tail(b))

StrLE(a, b) == a = b \/ StrLess(a, b)
StrGE(a, b) == ~StrLess(a, b)

isSpace(c) == c \in {" ", "\n"}

\* QString::trimmed
RECURSIVE trimLeft(_)
trimLeft(s) == IF s # <<>> /\ isSpace(Head(s)) THEN trimLeft(Tail(s)) ELSE s

RECURSIVE trimRight(_)
trimRight(s) ==
  IF s # <<>> /\ isSpace(s[Len(s)]) THEN trimRight(SubSeq(s, 1, Len(s) - 1)) ELSE s

trimmed(s) == trimRight(trimLeft(s))

\* QString::startsWith(prefix, Qt::CaseInsensitive)
startsWithCI(s, prefix) ==
  /\ Len(s) >= Len(prefix)
  /\ toLower(SubSeq(s, 1, Len(prefix))) = toLower(prefix)

\* QString::contains(QChar)
containsChar(s, c) == \E i \in DOMAIN s : s[i] = c

\* QString::split(sep) with Qt::KeepEmptyParts
RECURSIVE splitFrom(_, _, _, _)
splitFrom(s, sep, i, cur) ==
  IF i > Len(s) THEN <<cur>>
  ELSE IF s[i] = sep THEN <<cur>> \o splitFrom(s, sep, i + 1, <<>>)
  ELSE splitFrom(s, sep, i + 1, Append(cur, s[i]))

split(s, sep) == splitFrom(s, sep, 1, <<>>)

\* QString::split(sep, Qt::SkipEmptyParts)
splitSkipEmpty(s, sep) == SelectSeq(split(s, sep), LAMBDA part : part # <<>>)

\* StringUtil::removeWhitespace : the string without its whitespace characters
removeWhitespace(s) == SelectSeq(s, LAMBDA c : ~isSpace(c))

\* The value of a decimal digit, or -1
digitValue(c) == IF Code[c] >= Code["0"] /\ Code[c] <= Code["9"]
                   THEN Code[c] - Code["0"] ELSE -1

-----------------------------------------------------------------------------
(* QDate : 0 is the null (invalid) date, which compares below every valid   *)
(* date; a valid date is year * 10000 + month * 100 + day.                  *)

InvalidDate == 0

isDigits(s) == \A i \in DOMAIN s : digitValue(s[i]) >= 0

RECURSIVE toInt(_)
toInt(s) == IF s = <<>> THEN 0
            ELSE 10 * toInt(SubSeq(s, 1, Len(s) - 1)) + digitValue(s[Len(s)])

\* QDate::fromString(s, Qt::ISODate) : "yyyy-MM-dd"
dateFromString(s) ==
  IF /\ Len(s) = 10
     /\ s[5] = "-" /\ s[8] = "-"
     /\ isDigits(SubSeq(s, 1, 4)) /\ isDigits(SubSeq(s, 6, 7))
     /\ isDigits(SubSeq(s, 9, 10))
  THEN LET y == toInt(SubSeq(s, 1, 4))
           m == toInt(SubSeq(s, 6, 7))
           d == toInt(SubSeq(s, 9, 10))
       IN  IF m >= 1 /\ m <= 12 /\ d >= 1 /\ d <= 31 /\ y >= 1
             THEN y * 10000 + m * 100 + d
             ELSE InvalidDate
  ELSE InvalidDate

\* The character of a decimal digit
digitChar(n) == CharOrder[Code["0"] + n]

\* QDate::toString(Qt::ISODate) : "yyyy-MM-dd", and empty for an invalid date
dateToString(d) ==
  IF d = InvalidDate THEN <<>>
  ELSE <<digitChar((d \div 10000000) % 10), digitChar((d \div 1000000) % 10),
         digitChar((d \div 100000) % 10), digitChar((d \div 10000) % 10), "-",
         digitChar((d \div 1000) % 10), digitChar((d \div 100) % 10), "-",
         digitChar((d \div 10) % 10), digitChar(d % 10)>>

-----------------------------------------------------------------------------
(* BCP47Language *)

\* enum BCP47Language::Type
BAD_TAG == 0
LANGUAGE == 1
EXTLANG == 2
SCRIPT == 3
REGION == 4
VARIANT == 5
GRANDFATHERED == 6
REDUNDANT == 7

\* enum BCP47Language::TagType (the values of the flags)
NO_VALUE == 0
PRIMARY_LANGUAGE == 1
PRIVATE_LANGUAGE == 2
NO_PRIMARY_LANGUAGE == 16777216
EXTENDED_LANGUAGE == 8
NO_EXTENDED_LANGUAGE == 17
SCRIPT_LANGUAGE == 256
PRIVATE_SCRIPT == 1024
NO_SCRIPT == 2048
REGIONAL_LANGUAGE == 65536
PRIVATE_REGION == 131072
NO_REGION == 262144
VARIANT_LANGUAGE == 2097152
NO_VARIANT_LANGUAGE == 4194304
GRANDFATHERED_LANGUAGE == 1048576
NO_GRANDFATHERED_LANGUAGE == 16777216
REDUNDANT_LANGUAGE == 2097152
NO_REDUNDANT_LANGUAGE == 67108864
BAD_SUBTAG == 1073741824

\* The address of an object: who allocated it and its number there
NullId == <<"null", 0>>

\* new BCP47Language() : the object at address id
BCP47Language(id) ==
  [id |-> id,
   m_type |-> LANGUAGE,
   m_subtag |-> <<>>,
   m_tag |-> <<>>,
   m_descriptions |-> <<>>,
   m_added |-> InvalidDate,
   m_suppressScriptLang |-> <<>>,
   m_macrolanguageName |-> <<>>,
   m_comments |-> <<>>,
   m_preferredValue |-> <<>>,
   m_prefix |-> <<>>,
   m_macrolanguage |-> FALSE,
   m_collection |-> FALSE,
   m_deprecated |-> FALSE]

\* A null QSharedPointer<BCP47Language>
NullPtr == BCP47Language(NullId)

isNull(p) == p.id = NullId

addDescription(l, desc) ==
  [l EXCEPT !.m_descriptions = Append(@, desc)]

appendDescription(l, desc) ==
  IF Len(l.m_descriptions) = 0
    THEN [l EXCEPT !.m_descriptions = Append(@, desc)]
    ELSE [l EXCEPT !.m_descriptions[Len(l.m_descriptions)] = @ \o <<"\n">> \o desc]

appendComment(l, extra) ==
  [l EXCEPT !.m_comments = @ \o <<"\n">> \o extra]

\* BCP47Language::fromString
fromString(name) ==
  LET n == toLower(name) IN
  IF n = <<"l","a","n","g","u","a","g","e">> THEN LANGUAGE
  ELSE IF n = <<"e","x","t","l","a","n","g">> THEN EXTLANG
  ELSE IF n = <<"s","c","r","i","p","t">> THEN SCRIPT
  ELSE IF n = <<"r","e","g","i","o","n">> THEN REGION
  ELSE IF n = <<"v","a","r","i","a","n","t">> THEN VARIANT
  ELSE IF n = <<"g","r","a","n","d","f","a","t","h","e","r","e","d">> THEN GRANDFATHERED
  ELSE IF n = <<"r","e","d","u","n","d","a","n","t">> THEN REDUNDANT
  ELSE BAD_TAG

\* BCP47Language::typeString
typeString(l) ==
  CASE l.m_type = LANGUAGE -> <<"l","a","n","g","u","a","g","e">>
    [] l.m_type = EXTLANG -> <<"e","x","t","l","a","n","g">>
    [] l.m_type = SCRIPT -> <<"s","c","r","i","p","t">>
    [] l.m_type = REGION -> <<"r","e","g","i","o","n">>
    [] l.m_type = VARIANT -> <<"v","a","r","i","a","n","t">>
    [] l.m_type = GRANDFATHERED -> <<"g","r","a","n","d","f","a","t","h","e","r","e","d">>
    [] l.m_type = REDUNDANT -> <<"r","e","d","u","n","d","a","n","t">>
    [] OTHER -> <<>>

-----------------------------------------------------------------------------
(* QMap and QMultiMap                                                       *)
(* A QMap is a function from its keys to its values. A QMultiMap is the     *)
(* sequence of its (key, value) items in iteration order: ascending keys,   *)
(* and for one key the most recently inserted item first.                   *)

EmptyMap == <<>>

\* QMap::insert : replaces the value of an existing key
mapInsert(m, k, v) == [x \in (DOMAIN m) \cup {k} |-> IF x = k THEN v ELSE m[x]]

\* QMap::value : a default-constructed (null) pointer when the key is absent
mapValue(m, k) == IF k \in DOMAIN m THEN m[k] ELSE NullPtr

\* QMap::keys
mapKeys(m) == DOMAIN m

\* QMultiMap::insert
RECURSIVE multiInsert(_, _, _)
multiInsert(mm, k, v) ==
  IF mm = <<>> THEN <<[key |-> k, value |-> v]>>
  ELSE IF StrLess(Head(mm).key, k)
         THEN <<Head(mm)>> \o multiInsert(Tail(mm), k, v)
         ELSE <<[key |-> k, value |-> v]>> \o mm

\* QMultiMap::values(key), most recently inserted first
multiValues(mm, k) ==
  LET items == SelectSeq(mm, LAMBDA e : e.key = k)
  IN  [i \in DOMAIN items |-> items[i].value]

-----------------------------------------------------------------------------
(* BCP47Languages : the index *)

\* The fourteen kind-specific static maps as one value
Index ==
  [languageByDescription |-> m_languageByDescription,
   languageBySubtag |-> m_languageBySubtag,
   extlangByDescription |-> m_extlangByDescription,
   extlangBySubtag |-> m_extlangBySubtag,
   regionByDescription |-> m_regionByDescription,
   regionBySubtag |-> m_regionBySubtag,
   scriptByDescription |-> m_scriptByDescription,
   scriptBySubtag |-> m_scriptBySubtag,
   variantByDescription |-> m_variantByDescription,
   variantBySubtag |-> m_variantBySubtag,
   grandfatheredByDescription |-> m_grandfatheredByDescription,
   grandfatheredByTag |-> m_grandfatheredByTag,
   redundantByDescription |-> m_redundantByDescription,
   redundantByTag |-> m_redundantByTag]

\* The static maps as the program starts
EmptyIndex ==
  [languageByDescription |-> EmptyMap, languageBySubtag |-> EmptyMap,
   extlangByDescription |-> EmptyMap, extlangBySubtag |-> EmptyMap,
   regionByDescription |-> EmptyMap, regionBySubtag |-> EmptyMap,
   scriptByDescription |-> EmptyMap, scriptBySubtag |-> EmptyMap,
   variantByDescription |-> EmptyMap, variantBySubtag |-> EmptyMap,
   grandfatheredByDescription |-> <<>>, grandfatheredByTag |-> EmptyMap,
   redundantByDescription |-> EmptyMap, redundantByTag |-> EmptyMap]

\* The static maps take the values of idx
SetIndex(idx) ==
  /\ m_languageByDescription' = idx.languageByDescription
  /\ m_languageBySubtag' = idx.languageBySubtag
  /\ m_extlangByDescription' = idx.extlangByDescription
  /\ m_extlangBySubtag' = idx.extlangBySubtag
  /\ m_regionByDescription' = idx.regionByDescription
  /\ m_regionBySubtag' = idx.regionBySubtag
  /\ m_scriptByDescription' = idx.scriptByDescription
  /\ m_scriptBySubtag' = idx.scriptBySubtag
  /\ m_variantByDescription' = idx.variantByDescription
  /\ m_variantBySubtag' = idx.variantBySubtag
  /\ m_grandfatheredByDescription' = idx.grandfatheredByDescription
  /\ m_grandfatheredByTag' = idx.grandfatheredByTag
  /\ m_redundantByDescription' = idx.redundantByDescription
  /\ m_redundantByTag' = idx.redundantByTag

\* The first lines of updateMaps: only the subtag and tag maps are cleared
clearSubtagMaps(idx) ==
  [idx EXCEPT !.languageBySubtag = EmptyMap,
              !.extlangBySubtag = EmptyMap,
              !.regionBySubtag = EmptyMap,
              !.scriptBySubtag = EmptyMap,
              !.variantBySubtag = EmptyMap,
              !.grandfatheredByTag = EmptyMap,
              !.redundantByTag = EmptyMap]

\* The switch of updateMaps for one (description, language) item
indexItem(idx, description, l) ==
  IF l.m_type = LANGUAGE THEN
    [idx EXCEPT !.languageByDescription = mapInsert(@, description, l),
                !.languageBySubtag = mapInsert(@, l.m_subtag, l)]
  ELSE IF l.m_type = EXTLANG THEN
    [idx EXCEPT !.extlangByDescription = mapInsert(@, description, l),
                !.extlangBySubtag = mapInsert(@, l.m_subtag, l)]
  ELSE IF l.m_type = REGION THEN
    [idx EXCEPT !.regionByDescription = mapInsert(@, description, l),
                !.regionBySubtag = mapInsert(@, l.m_subtag, l)]
  ELSE IF l.m_type = SCRIPT THEN
    [idx EXCEPT !.scriptByDescription = mapInsert(@, description, l),
                !.scriptBySubtag = mapInsert(@, l.m_subtag, l)]
  ELSE IF l.m_type = VARIANT THEN
    [idx EXCEPT !.variantByDescription = mapInsert(@, description, l),
                !.variantBySubtag = mapInsert(@, l.m_subtag, l)]
  ELSE IF l.m_type = GRANDFATHERED THEN
    [idx EXCEPT !.grandfatheredByDescription = multiInsert(@, description, l),
                !.grandfatheredByTag = mapInsert(@, l.m_tag, l)]
  ELSE IF l.m_type = REDUNDANT THEN
    [idx EXCEPT !.redundantByDescription = mapInsert(@, description, l),
                !.redundantByTag = mapInsert(@, l.m_tag, l)]
  ELSE idx

\* The loops of updateMaps: the unique keys in ascending order and, for each,
\* its values, which is the iteration order of the multimap
RECURSIVE indexItems(_, _, _)
indexItems(idx, dataset, i) ==
  IF i > Len(dataset) THEN idx
  ELSE indexItems(indexItem(idx, dataset[i].key, dataset[i].value), dataset, i + 1)

\* An update that passes over the first item of the dataset
updateMapsAfterFirst(idx, dataset) == indexItems(clearSubtagMaps(idx), dataset, 2)

\* BCP47Languages::updateMaps
updateMaps(idx, dataset) == indexItems(clearSubtagMaps(idx), dataset, 1)

\* BCP47Languages::addLanguage
addLanguage(dataset, description, l) == multiInsert(dataset, description, l)

isPrimaryLanguage(subtag) == subtag \in mapKeys(m_languageBySubtag)
isExtLang(subtag) == subtag \in mapKeys(m_extlangBySubtag)
isVariant(subtag) == subtag \in mapKeys(m_variantBySubtag)
isRegion(subtag) == subtag \in mapKeys(m_regionBySubtag)
isScript(subtag) == subtag \in mapKeys(m_scriptBySubtag)
isGrandfathered(subtag) == subtag \in mapKeys(m_grandfatheredByTag)
isRedundant(subtag) == subtag \in mapKeys(m_redundantByTag)

fromDescription(description) == multiValues(m_datasetByDescription, description)

languageFromSubtag(subtag) == mapValue(m_languageBySubtag, subtag)
extlangFromSubtag(subtag) == mapValue(m_extlangBySubtag, subtag)
variantFromSubtag(subtag) == mapValue(m_variantBySubtag, subtag)
regionFromSubtag(subtag) == mapValue(m_regionBySubtag, subtag)
scriptFromSubtag(subtag) == mapValue(m_scriptBySubtag, subtag)
redundantFromTag(tag) == mapValue(m_redundantByTag, tag)
grandfatheredFromTag(tag) == mapValue(m_grandfatheredByTag, tag)

\* The xxxFromSubtag lookup of a record type
fromSubtagOfType(type, subtag) ==
  IF type = LANGUAGE THEN languageFromSubtag(subtag)
  ELSE IF type = EXTLANG THEN extlangFromSubtag(subtag)
  ELSE IF type = SCRIPT THEN scriptFromSubtag(subtag)
  ELSE IF type = REGION THEN regionFromSubtag(subtag)
  ELSE IF type = VARIANT THEN variantFromSubtag(subtag)
  ELSE NullPtr

-----------------------------------------------------------------------------
(* BCP47Languages : the tokenizer *)

checkPrimaryLanguage(value) ==
  IF \/ value = <<"i">>
     \/ value = <<"x">>
     \/ (StrGE(value, <<"q","a","a">>) /\ StrLE(value, <<"q","t","z">>))
    THEN PRIVATE_LANGUAGE
  ELSE IF isPrimaryLanguage(value) THEN PRIMARY_LANGUAGE
  ELSE NO_PRIMARY_LANGUAGE

checkExtendedlanguage(value) ==
  IF isExtLang(value) THEN EXTENDED_LANGUAGE ELSE NO_EXTENDED_LANGUAGE

checkScript(value) ==
  IF isScript(value) THEN SCRIPT_LANGUAGE
  ELSE IF StrGE(value, <<"Q","a","a","a">>) /\ StrLE(value, <<"Q","a","b","x">>)
    THEN PRIVATE_SCRIPT
  ELSE NO_SCRIPT

checkRegion(value) ==
  IF isRegion(value) THEN REGIONAL_LANGUAGE
  ELSE IF \/ value = <<"A","A">>
          \/ (StrGE(value, <<"Q","M">>) /\ StrLE(value, <<"Q","Z">>))
          \/ (StrGE(value, <<"X","A">>) /\ StrLE(value, <<"X","Z">>))
          \/ value = <<"Z","Z">>
    THEN PRIVATE_REGION
  ELSE NO_REGION

checkVariant(value) ==
  IF isVariant(value) THEN VARIANT_LANGUAGE ELSE NO_VARIANT_LANGUAGE

checkGrandfathered(value) ==
  IF isGrandfathered(value) THEN GRANDFATHERED_LANGUAGE
  ELSE NO_GRANDFATHERED_LANGUAGE

checkRedundant(value) ==
  IF isVariant(value) THEN REDUNDANT_LANGUAGE ELSE NO_REDUNDANT_LANGUAGE

\* new BCP47Language::TagTestResult() : value-initialized; null is TRUE for a
\* null QSharedPointer<TagTestResult>
TagTestResult ==
  [null |-> FALSE, type |-> NO_VALUE, start |-> 0, length |-> 0, text |-> <<>>]

NullResult == [TagTestResult EXCEPT !.null = TRUE]

\* The outcomes of dereferencing a null pointer: the process stops, or the
\* access is lost and execution goes on
UBOutcomes == {"crash", "continue"}

\* The classification of a closed candidate in testTag: the token written
\* through result
classified(result, subvalue) ==
  IF checkPrimaryLanguage(subvalue) # NO_PRIMARY_LANGUAGE THEN
    [result EXCEPT !.type = checkPrimaryLanguage(subvalue),
                   !.text = subvalue, !.length = Len(subvalue)]
  ELSE IF checkExtendedlanguage(subvalue) # NO_EXTENDED_LANGUAGE THEN
    [result EXCEPT !.type = checkExtendedlanguage(subvalue),
                   !.text = subvalue, !.length = Len(subvalue)]
  ELSE IF checkScript(subvalue) # NO_SCRIPT THEN
    [result EXCEPT !.type = checkScript(subvalue),
                   !.text = subvalue, !.length = Len(subvalue)]
  ELSE IF checkRegion(subvalue) # NO_REGION THEN
    [result EXCEPT !.type = checkRegion(subvalue),
                   !.text = subvalue, !.length = Len(subvalue)]
  ELSE
    [result EXCEPT !.length = Len(subvalue), !.type = BAD_SUBTAG]

\* The for loop of testTag from index i (0-based) with the locals subvalue,
\* result and results; ub is the outcome of a null dereference
RECURSIVE testTagLoop(_, _, _, _, _, _)
testTagLoop(testValue, i, subvalue, result, results, ub) ==
  IF i >= Len(testValue) THEN
    [failed |-> FALSE,
     results |-> IF result.null THEN results ELSE Append(results, result)]
  ELSE
    LET c == testValue[i + 1]
        pos == i + 1
        taken == c # "-" /\ pos <= Len(testValue)
        subvalue1 == IF taken THEN Append(subvalue, c) ELSE subvalue
        result1 == IF taken /\ result.null
                     THEN [TagTestResult EXCEPT !.start = i]
                     ELSE result
    IN  IF c = "-" \/ pos = Len(testValue) THEN
          IF result1.null THEN
            \* result->type = ... through a null pointer
            IF ub = "crash" THEN [failed |-> TRUE, results |-> results]
            ELSE testTagLoop(testValue, i + 1, subvalue1, NullResult,
                             Append(results, NullResult), ub)
          ELSE testTagLoop(testValue, i + 1, subvalue1, NullResult,
                           Append(results, classified(result1, subvalue1)), ub)
        ELSE testTagLoop(testValue, i + 1, subvalue1, result1, results, ub)

\* BCP47Languages::testTag
testTag(tag, ub) ==
  testTagLoop(removeWhitespace(tag), 0, <<>>, NullResult, <<>>, ub)

-----------------------------------------------------------------------------
(* BCP47Languages : the tag builders *)

\* What a call gives back: a returned string, or no return at all
Returned(v) == [failed |-> FALSE, value |-> v]
Crashed == [failed |-> TRUE, value |-> <<>>]

\* p->prefix().at(0), p->subtag() and p->preferredValue(); junk is what the
\* read gives when p is null or the vector is empty and execution goes on
prefixAt0(p, junk) == IF isNull(p) \/ p.m_prefix = <<>> THEN junk ELSE p.m_prefix[1]
subtagOf(p, junk) == IF isNull(p) THEN junk ELSE p.m_subtag
preferredValueOf(p, junk) == IF isNull(p) THEN junk ELSE p.m_preferredValue

\* A builder that puts the region before the language
languageTagRegionFirst(languageName, regionName) ==
  LET tag == mapValue(m_languageBySubtag, languageName)
      regTag == mapValue(m_regionBySubtag, regionName)
  IN  IF regionName = <<>> THEN
        IF ~isNull(tag) THEN Returned(tag.m_subtag) ELSE Returned(<<>>)
      ELSE IF ~isNull(tag) /\ ~isNull(regTag)
        THEN Returned(regTag.m_subtag \o <<"-">> \o tag.m_subtag)
      ELSE Returned(<<>>)

\* BCP47Languages::languageTag
languageTag(languageName, regionName) ==
  LET tag == mapValue(m_languageBySubtag, languageName)
      regTag == mapValue(m_regionBySubtag, regionName)
  IN  IF regionName = <<>> THEN
        IF ~isNull(tag) THEN Returned(tag.m_subtag) ELSE Returned(<<>>)
      ELSE IF ~isNull(tag) /\ ~isNull(regTag)
        THEN Returned(tag.m_subtag \o <<"-">> \o regTag.m_subtag)
      ELSE Returned(<<>>)

\* The condition of the if statement of scriptTag and of variantTag
eitherResolves(a, b) == ~isNull(a) \/ ~isNull(b)

\* BCP47Languages::scriptTag
scriptTag(languageName, scriptName, ub, junk) ==
  LET tags == mapValue(m_languageBySubtag, languageName)
      scriptTagP == mapValue(m_scriptBySubtag, scriptName)
  IN  IF eitherResolves(tags, scriptTagP) THEN
        IF (isNull(tags) \/ isNull(scriptTagP) \/ tags.m_prefix = <<>>) /\ ub = "crash"
          THEN Crashed
          ELSE Returned(prefixAt0(tags, junk) \o <<"-">> \o subtagOf(scriptTagP, junk)
                        \o <<"-">> \o subtagOf(tags, junk))
      ELSE Returned(<<>>)

\* BCP47Languages::variantTag
variantTag(scriptName, region, ub, junk) ==
  LET tags == mapValue(m_variantBySubtag, scriptName)
      regTag == mapValue(m_regionBySubtag, region)
  IN  IF region = <<>> THEN
        IF ~isNull(tags) THEN
          IF tags.m_prefix = <<>> /\ ub = "crash" THEN Crashed
          ELSE Returned(prefixAt0(tags, junk) \o <<"-">> \o tags.m_subtag)
        ELSE Returned(<<>>)
      ELSE IF eitherResolves(tags, regTag) THEN
        IF (isNull(tags) \/ isNull(regTag) \/ tags.m_prefix = <<>>) /\ ub = "crash"
          THEN Crashed
          ELSE Returned(prefixAt0(tags, junk) \o <<"-">> \o subtagOf(regTag, junk)
                        \o <<"-">> \o subtagOf(tags, junk))
      ELSE Returned(<<>>)

\* BCP47Languages::extLangTag
extLangTag(extlanName, ub, junk) ==
  LET langTag == mapValue(m_languageBySubtag, extlanName)
  IN  IF (isNull(langTag) \/ langTag.m_prefix = <<>>) /\ ub = "crash" THEN Crashed
      ELSE Returned(prefixAt0(langTag, junk) \o <<"-">> \o preferredValueOf(langTag, junk))

-----------------------------------------------------------------------------
(* BCP47Languages : loading the local file and the refresh handler *)

\* A YAML map node is the sequence of its (key, value) entries; a value is a
\* scalar or a sequence of scalars
Scalar(k, v) == [key |-> k, isSeq |-> FALSE, scalar |-> v, seq |-> <<>>]
SeqOf(k, vs) == [key |-> k, isSeq |-> TRUE, scalar |-> <<>>, seq |-> vs]

\* node[key] is defined
hasKey(node, k) == \E i \in DOMAIN node : node[i].key = k

\* node[key] : the first entry of that key
nodeAt(node, k) == node[CHOOSE i \in DOMAIN node :
                          node[i].key = k /\ \A j \in 1..(i - 1) : node[j].key # k]

scalarAt(node, k) == nodeAt(node, k).scalar

\* node[key].as<QString>() when node[key] is defined, and old otherwise
scalarOr(node, k, old) == IF hasKey(node, k) THEN scalarAt(node, k) ELSE old

\* node[key] as a sequence of strings, empty when it is none
seqOr(node, k) ==
  IF hasKey(node, k) /\ nodeAt(node, k).isSeq THEN nodeAt(node, k).seq ELSE <<>>

\* The scope of a language node is the given one (the first that matches of
\* deprecated, collection, macrolanguage)
scopeIs(node, scope) == hasKey(node, "scope") /\ scalarAt(node, "scope") = scope

\* The body of the loop over the language nodes in loadYamlFile, up to the
\* record it builds
languageOfNode(node, id) ==
  [BCP47Language(id) EXCEPT
     !.m_type = IF hasKey(node, "type")
                  THEN fromString(scalarAt(node, "type")) ELSE @,
     !.m_subtag = scalarOr(node, "subtag", @),
     !.m_tag = scalarOr(node, "tag", @),
     !.m_added = IF hasKey(node, "added")
                   THEN dateFromString(scalarAt(node, "added")) ELSE @,
     !.m_suppressScriptLang = scalarOr(node, "suppress-script", @),
     !.m_macrolanguageName = scalarOr(node, "macrolanguage", @),
     !.m_preferredValue = scalarOr(node, "preferred-value", @),
     !.m_deprecated = scopeIs(node, <<"d","e","p","r","e","c","a","t","e","d">>) \/ @,
     !.m_collection = scopeIs(node, <<"c","o","l","l","e","c","t","i","o","n">>) \/ @,
     !.m_macrolanguage =
        scopeIs(node, <<"m","a","c","r","o","l","a","n","g","u","a","g","e">>) \/ @,
     !.m_descriptions = @ \o seqOr(node, "description"),
     !.m_prefix = @ \o seqOr(node, "prefix"),
     !.m_comments = IF hasKey(node, "comments") /\ ~nodeAt(node, "comments").isSeq
                      THEN scalarAt(node, "comments") ELSE @]

\* for (description : language->descriptions()) addLanguage(description, language)
RECURSIVE addUnderDescriptions(_, _, _)
addUnderDescriptions(dataset, l, i) ==
  IF i > Len(l.m_descriptions) THEN dataset
  ELSE addUnderDescriptions(addLanguage(dataset, l.m_descriptions[i], l), l, i + 1)

\* The loop over the language nodes in loadYamlFile; the n-th record allocated
\* by loadYamlFile has the address <<"yaml", n>>
RECURSIVE loadLanguages(_, _, _, _)
loadLanguages(dataset, nodes, i, alloc) ==
  IF i > Len(nodes) THEN dataset
  ELSE loadLanguages(
         addUnderDescriptions(dataset,
                              languageOfNode(nodes[i], <<"yaml", alloc + i>>), 1),
         nodes, i + 1, alloc)

\* The local file is held as the tree YAML::LoadFile reads from it: whether it
\* has the key file-date, its value, and the nodes under languages
NoFile == [hasFileDate |-> FALSE, fileDate |-> <<>>, languages |-> <<>>]

\* BCP47Languages::getUniqueLanguages : the records of the dataset in iteration
\* order, each pointer once
RECURSIVE uniqueFrom(_, _, _)
uniqueFrom(dataset, i, unique) ==
  IF i > Len(dataset) THEN unique
  ELSE uniqueFrom(dataset, i + 1,
                  IF \E j \in DOMAIN unique : unique[j].id = dataset[i].value.id
                    THEN unique
                    ELSE Append(unique, dataset[i].value))

getUniqueLanguages(dataset) == uniqueFrom(dataset, 1, <<>>)

\* emitter << Key << k << Value << v, which saveToLocalFile does for a value
\* that is not empty
emitScalar(k, v) == IF v = <<>> THEN <<>> ELSE <<Scalar(k, v)>>

\* The sequence under the key k, emitted when it is not empty
emitSeq(k, vs) == IF vs = <<>> THEN <<>> ELSE <<SeqOf(k, vs)>>

\* The key scope with the given value, emitted when the flag is set
emitScope(flag, v) == IF flag THEN <<Scalar("scope", v)>> ELSE <<>>

\* The map saveToLocalFile emits for one record
emitLanguage(l) ==
  <<Scalar("type", typeString(l))>>
  \o emitScalar("subtag", l.m_subtag)
  \o emitScalar("tag", l.m_tag)
  \o emitSeq("description", l.m_descriptions)
  \o emitScalar("added", dateToString(l.m_added))
  \o emitScalar("suppress-script", l.m_suppressScriptLang)
  \o emitScalar("macrolanguage", l.m_macrolanguageName)
  \o emitScalar("preferred-value", l.m_preferredValue)
  \o emitSeq("prefix", l.m_prefix)
  \o emitScope(l.m_macrolanguage, <<"m","a","c","r","o","l","a","n","g","u","a","g","e">>)
  \o emitScope(l.m_collection, <<"c","o","l","l","e","c","t","i","o","n">>)
  \o emitScope(l.m_deprecated, <<"d","e","p","r","e","c","a","t","e","d">>)
  \o emitScalar("comments", l.m_comments)

\* BCP47Languages::saveToLocalFile : the content written to the file
saveToLocalFile(dataset, date) ==
  [hasFileDate |-> TRUE,
   fileDate |-> dateToString(date),
   languages |-> [i \in DOMAIN getUniqueLanguages(dataset) |->
                    emitLanguage(getUniqueLanguages(dataset)[i])]]

\* A comparison that lets a file of the held date through
isNewerOrSame(held, new) == held <= new

\* The comparison of iainFileParsed: the new file date is newer than the held one
isNewer(held, new) == held < new

\* All strings over the characters cs of length at most n
RECURSIVE StringsUpTo(_, _)
StringsUpTo(cs, n) ==
  IF n = 0 THEN {<<>>}
  ELSE LET shorter == StringsUpTo(cs, n - 1)
       IN  shorter \cup {Append(s, c) : s \in shorter, c \in cs}

-----------------------------------------------------------------------------
(* LanguageParser *)

\* enum LanguageParser::Error (flags)
NO_ERROR == 0
BAD_FILE_DATE == 1
EMPTY_NAME == 2
EMPTY_VALUE == 4
UNKNOWN_TAG_TYPE == 8

\* BCP47Languages::TAGTYPES
TAGTYPES ==
  << <<"t","y","p","e">>,
     <<"t","a","g">>,
     <<"s","u","b","t","a","g">>,
     <<"d","e","s","c","r","i","p","t","i","o","n">>,
     <<"a","d","d","e","d">>,
     <<"s","u","p","p","r","e","s","s","-","s","c","r","i","p","t">>,
     <<"p","r","e","f","i","x">>,
     <<"m","a","c","r","o","l","a","n","g","u","a","g","e">>,
     <<"d","e","p","r","e","c","a","t","e","d">>,
     <<"p","r","e","f","e","r","r","e","d","-","v","a","l","u","e">>,
     <<"s","c","o","p","e">>,
     <<"c","o","m","m","e","n","t","s">> >>

\* BCP47Languages::isType
isType(type) == \E i \in DOMAIN TAGTYPES : toLower(TAGTYPES[i]) = toLower(type)

\* errors.insert(lineNumber, flags) : a QMultiMap<int, Errors>
errorsInsert(errs, lineNumber, flags) ==
  LET before == SelectSeq(errs, LAMBDA e : e.key < lineNumber)
      rest == SelectSeq(errs, LAMBDA e : e.key >= lineNumber)
  IN  before \o <<[key |-> lineNumber, value |-> flags]>> \o rest

\* The locals of parse and m_lineNumber as one value
Locals ==
  [m_lineNumber |-> m_lineNumber, line |-> line, state |-> state,
   dateFound |-> dateFound, language |-> language, count |-> count,
   languageMap |-> languageMap, errors |-> errors, fileDate |-> fileDate,
   pc |-> pc]

\* for (description : language->descriptions()) languageMap.insert(description, language)
foldLanguage(map, l) == addUnderDescriptions(map, l, 1)

\* The branch of parse for a line read before the file date was found
fileDateLine(p) ==
  IF startsWithCI(p.line, <<"f","i","l","e","-","d","a","t","e">>) THEN
    IF Len(split(p.line, ":")) = 2 THEN
      [p EXCEPT !.fileDate = dateFromString(trimmed(split(p.line, ":")[2])),
                !.dateFound = TRUE,
                !.line = <<>>]
    ELSE p
  ELSE [p EXCEPT !.errors = errorsInsert(@, p.m_lineNumber, BAD_FILE_DATE)]

\* The branch of parse for the separator line
separatorLine(p) ==
  [p EXCEPT
     !.languageMap = IF isNull(p.language) THEN @ ELSE foldLanguage(@, p.language),
     \* after the fold the state is FINISHED, so a new record is always opened
     !.language = IF ~isNull(p.language) \/ p.state # "STARTED"
                    THEN BCP47Language(<<"parse", p.m_lineNumber>>)
                    ELSE @,
     !.state = "STARTED",
     !.line = <<>>]

\* The two "extra line" switches of parse: the line goes onto the open
\* description or comment
continuationLine(p) ==
  [p EXCEPT
     !.language = IF p.state = "DESCRIPTION" THEN appendDescription(@, p.line)
                  ELSE IF p.state = "COMMENT" THEN appendComment(@, p.line)
                  ELSE @,
     !.line = <<>>]

\* ":" + splits.at(i) for the parts from index i (1-based here)
RECURSIVE joinFrom(_, _)
joinFrom(splits, i) ==
  IF i > Len(splits) THEN <<>>
  ELSE <<":">> \o splits[i] \o joinFrom(splits, i + 1)

\* name, as parse computes it from the parts of a line with a colon
nameOf(splits) == IF Len(splits) >= 2 THEN trimmed(splits[1]) ELSE <<>>

\* nameIsType, as parse computes it
nameIsTypeOf(splits) == Len(splits) >= 2 /\ isType(nameOf(splits))

\* value, as parse computes it from the parts of a line with a colon
valueOf(lineText, splits) ==
  IF Len(splits) = 1 THEN lineText
  ELSE IF Len(splits) = 2 THEN trimmed(splits[2])
  ELSE IF nameIsTypeOf(splits)
    THEN trimmed(nameOf(splits) \o joinFrom(splits, 2))
    ELSE trimmed(splits[2] \o joinFrom(splits, 3))

\* The error recorded for a line of exactly two parts
twoPartErrors(p, splits) ==
  IF /\ Len(splits) = 2
     /\ p.state # "COMMENT"
     /\ (~nameIsTypeOf(splits) \/ valueOf(p.line, splits) = <<>>)
    THEN [p EXCEPT !.errors = errorsInsert(@, p.m_lineNumber, EMPTY_NAME)]
    ELSE p

\* The record types a type line may name
isTypeValue(lValue) == fromString(lValue) # BAD_TAG

\* The branch of parse for the field type; language is dereferenced without a
\* null check
typeField(p, value, ub) ==
  IF isTypeValue(toLower(value)) THEN
    IF isNull(p.language) THEN
      IF ub = "crash" THEN [p EXCEPT !.pc = "crashed"]
      ELSE [p EXCEPT !.line = <<>>]
    ELSE [p EXCEPT !.language.m_type = fromString(toLower(value)), !.line = <<>>]
  ELSE [p EXCEPT !.errors = errorsInsert(@, p.m_lineNumber, UNKNOWN_TAG_TYPE),
                 !.line = <<>>]

\* The setter a field other than type, description and comments calls
setField(l, lName, value) ==
  IF lName = <<"t","a","g">> THEN [l EXCEPT !.m_tag = value]
  ELSE IF lName = <<"s","u","b","t","a","g">> THEN [l EXCEPT !.m_subtag = value]
  ELSE IF lName = <<"a","d","d","e","d">> THEN [l EXCEPT !.m_added = dateFromString(value)]
  ELSE IF lName = <<"s","u","p","p","r","e","s","s","-","s","c","r","i","p","t">>
    THEN [l EXCEPT !.m_suppressScriptLang = value]
  ELSE IF lName = <<"p","r","e","f","i","x">> THEN [l EXCEPT !.m_prefix = Append(@, value)]
  ELSE IF lName = <<"m","a","c","r","o","l","a","n","g","u","a","g","e">>
    THEN [l EXCEPT !.m_macrolanguageName = value]
  ELSE IF lName = <<"d","e","p","r","e","c","a","t","e","d">>
    THEN [l EXCEPT !.m_deprecated = TRUE]
  ELSE IF lName = <<"p","r","e","f","e","r","r","e","d","-","v","a","l","u","e">>
    THEN [l EXCEPT !.m_preferredValue = value]
  ELSE IF lName = <<"s","c","o","p","e">> THEN
    IF value = <<"m","a","c","r","o","l","a","n","g","u","g","e">>
      THEN [l EXCEPT !.m_macrolanguage = TRUE]
    ELSE IF value = <<"c","o","l","l","e","c","t","i","o","n">>
      THEN [l EXCEPT !.m_collection = TRUE]
    ELSE l
  ELSE l

\* The branches of parse for the recognized fields
fieldLine(p, lName, value, ub) ==
  IF lName = <<"t","y","p","e">> THEN typeField(p, value, ub)
  ELSE IF isNull(p.language) THEN [p EXCEPT !.line = <<>>]
  ELSE IF lName = <<"d","e","s","c","r","i","p","t","i","o","n">> THEN
    [p EXCEPT !.language = addDescription(@, value),
              !.count = @ + 1,
              !.state = "DESCRIPTION",
              !.line = <<>>]
  ELSE IF lName = <<"c","o","m","m","e","n","t","s">> THEN
    [p EXCEPT !.language.m_comments = value,
              !.state = "COMMENT",
              !.line = <<>>]
  ELSE [p EXCEPT !.language = setField(@, lName, value), !.line = <<>>]

\* The branch of parse for a line that contains a colon
colonLine(p, splits, ub) ==
  IF Len(splits) = 0 THEN
    \* continue: the line is not cleared
    [p EXCEPT !.errors = errorsInsert(@, p.m_lineNumber, EMPTY_NAME + EMPTY_VALUE)]
  ELSE IF nameIsTypeOf(splits) THEN
    fieldLine(twoPartErrors(p, splits), toLower(nameOf(splits)),
              valueOf(p.line, splits), ub)
  ELSE continuationLine(twoPartErrors(p, splits))

\* The body of the loop of parse for a '\n': p.line is the line read and
\* p.m_lineNumber is already incremented
processLine(p, ub) ==
  IF ~p.dateFound THEN fileDateLine(p)
  ELSE IF p.line = <<"%","%">> THEN separatorLine(p)
  ELSE IF containsChar(p.line, ":") THEN colonLine(p, splitSkipEmpty(p.line, ":"), ub)
  ELSE continuationLine(p)

\* The code after the loop of parse: the open record is folded and the signals
\* parseCompleted, parsingErrors and finished are emitted
endOfData(p) ==
  [p EXCEPT
     !.languageMap = IF isNull(p.language) THEN @ ELSE foldLanguage(@, p.language),
     !.language = NullPtr,
     !.pc = "done"]

parseSignals(p) ==
  <<[signal |-> "parseCompleted", languages |-> p.languageMap,
     fileDate |-> p.fileDate, noErrors |-> p.errors = <<>>, errors |-> <<>>]>>
  \o (IF p.errors # <<>>
        THEN <<[signal |-> "parsingErrors", languages |-> <<>>,
                fileDate |-> InvalidDate, noErrors |-> FALSE, errors |-> p.errors]>>
        ELSE <<>>)
  \o <<[signal |-> "finished", languages |-> <<>>, fileDate |-> InvalidDate,
        noErrors |-> FALSE, errors |-> <<>>]>>

-----------------------------------------------------------------------------
(* Bounds and inputs *)

\* The longest tag given to testTag
MaxTagLen == 5

\* The most records loadYamlFile allocates in one run of the program
MaxAllocated == 4

\* The characters of the tags given to testTag
TagChars == {"e", "n", "G", "B", "-", " "}

TagInputs == StringsUpTo(TagChars, MaxTagLen)

s_language == <<"l","a","n","g","u","a","g","e">>
s_extlang == <<"e","x","t","l","a","n","g">>
s_script == <<"s","c","r","i","p","t">>
s_region == <<"r","e","g","i","o","n">>
s_variant == <<"v","a","r","i","a","n","t">>
s_grandfathered == <<"g","r","a","n","d","f","a","t","h","e","r","e","d">>
s_redundant == <<"r","e","d","u","n","d","a","n","t">>

s_en == <<"e","n">>
s_fr == <<"f","r">>
s_az == <<"a","z">>
s_ar == <<"a","r">>
s_sl == <<"s","l">>
s_zz == <<"z","z">>
s_GB == <<"G","B">>
s_US == <<"U","S">>
s_Latn == <<"L","a","t","n">>
s_afb == <<"a","f","b">>
s_nedis == <<"n","e","d","i","s">>
s_iklingon == <<"i","-","k","l","i","n","g","o","n">>
s_zhHans == <<"z","h","-","H","a","n","s">>

d_2020 == <<"2","0","2","0","-","0","1","-","0","1">>
d_2021 == <<"2","0","2","1","-","0","6","-","1","5">>

\* A local file holding a small registry: languages, an extlang, a script,
\* regions, a variant, a grandfathered and a redundant tag
RegistryFile ==
  [hasFileDate |-> TRUE, fileDate |-> d_2020,
   languages |-> <<
     <<Scalar("type", s_language), Scalar("subtag", s_en),
       SeqOf("description", <<<<"E","n","g","l","i","s","h">>>>),
       Scalar("suppress-script", s_Latn)>>,
     <<Scalar("type", s_language), Scalar("subtag", s_az),
       SeqOf("description", <<<<"A","z","e","r","i">>>>),
       SeqOf("prefix", <<s_ar>>)>>,
     <<Scalar("type", s_language), Scalar("subtag", s_ar),
       SeqOf("description", <<<<"A","r","a","b","i","c">>>>)>>,
     <<Scalar("type", s_extlang), Scalar("subtag", s_afb),
       SeqOf("description", <<<<"G","u","l","f"," ","A","r","a","b","i","c">>>>),
       Scalar("preferred-value", s_afb), SeqOf("prefix", <<s_ar>>)>>,
     <<Scalar("type", s_script), Scalar("subtag", s_Latn),
       SeqOf("description", <<<<"L","a","t","i","n">>>>),
       SeqOf("prefix", <<s_az>>)>>,
     <<Scalar("type", s_region), Scalar("subtag", s_GB),
       SeqOf("description", <<<<"U","n","i","t","e","d"," ","K","i","n","g","d","o","m">>>>)>>,
     <<Scalar("type", s_region), Scalar("subtag", s_US),
       SeqOf("description", <<<<"U","n","i","t","e","d"," ","S","t","a","t","e","s">>>>)>>,
     <<Scalar("type", s_variant), Scalar("subtag", s_nedis),
       SeqOf("description", <<<<"N","a","t","i","s","o","n","e">>, <<"N","a","d","i","z","a">>>>),
       SeqOf("prefix", <<s_sl>>)>>,
     <<Scalar("type", s_grandfathered), Scalar("tag", s_iklingon),
       SeqOf("description", <<<<"K","l","i","n","g","o","n">>>>)>>,
     <<Scalar("type", s_redundant), Scalar("tag", s_zhHans),
       SeqOf("description", <<<<"S","i","m","p","l","i","f","i","e","d">>>>)>>
   >>]

\* The names given to the tag builders: registered subtags of each kind, an
\* unregistered one and the empty string
BuilderNames == {s_en, s_az, s_GB, s_US, s_Latn, s_nedis, s_afb, s_zz, <<>>}

\* What a read through a null pointer gives when execution goes on
JunkStrings == {<<>>, <<"Z","Z">>}

\* The local files of the index runs
FileEnGB ==
  [hasFileDate |-> TRUE, fileDate |-> d_2020,
   languages |-> <<
     <<Scalar("type", s_language), Scalar("subtag", s_en),
       SeqOf("description", <<<<"E">>, <<"N">>>>)>>,
     <<Scalar("type", s_region), Scalar("subtag", s_GB),
       SeqOf("description", <<<<"B">>>>)>> >>]

\* two Language records of one subtag
FileTwoEn ==
  [hasFileDate |-> TRUE, fileDate |-> d_2021,
   languages |-> <<
     <<Scalar("type", s_language), Scalar("subtag", s_en),
       SeqOf("description", <<<<"E">>>>)>>,
     <<Scalar("type", s_language), Scalar("subtag", s_en),
       SeqOf("description", <<<<"A">>>>)>> >>]

FileNoDate ==
  [hasFileDate |-> FALSE, fileDate |-> <<>>,
   languages |-> <<
     <<Scalar("type", s_script), Scalar("subtag", s_Latn),
       SeqOf("description", <<<<"L">>>>)>> >>]

LocalFiles == {FileEnGB, FileTwoEn, FileNoDate}

\* Records as LanguageParser::parse builds them, and the maps it delivers
ParsedFr ==
  [BCP47Language(<<"parse", 1>>) EXCEPT !.m_subtag = s_fr,
                                        !.m_descriptions = <<<<"F">>>>]
ParsedGB ==
  [BCP47Language(<<"parse", 2>>) EXCEPT !.m_type = REGION, !.m_subtag = s_GB,
                                        !.m_descriptions = <<<<"B">>, <<"U">>>>]
ParsedEn ==
  [BCP47Language(<<"parse", 3>>) EXCEPT !.m_subtag = s_en,
                                        !.m_descriptions = <<<<"E">>>>]

ParsedMaps ==
  {addUnderDescriptions(<<>>, ParsedFr, 1),
   addUnderDescriptions(addUnderDescriptions(<<>>, ParsedEn, 1), ParsedGB, 1),
   <<>>}

FileDates == {InvalidDate, dateFromString(d_2020), dateFromString(d_2021)}

\* The longest of the short strings given to the check functions
MaxCheckLen == 3

\* The most lines one run of the parser reads
MaxLines == 4

\* Lines of a registry file, without their '\n'
s_UK == <<"U","K">>
l_fileDate == <<"f","i","l","e","-","d","a","t","e",":"," ">> \o d_2020
l_fileDateBad == <<"f","i","l","e","-","d","a","t","e",":"," ","s","o","o","n">>
l_junk == <<"j","u","n","k">>
l_separator == <<"%","%">>
l_typeRegion == <<"t","y","p","e",":"," ","r","e","g","i","o","n">>
l_subtagGB == <<"s","u","b","t","a","g",":"," ">> \o s_GB
l_description == <<"D","e","s","c","r","i","p","t","i","o","n",":"," ">> \o s_UK

RegistryLines ==
  {l_fileDate, l_fileDateBad, l_junk, l_separator, l_typeRegion, l_subtagGB,
   l_description}

\* The text after the last '\n' of the data
Tails == {<<>>, l_description}

-----------------------------------------------------------------------------
(* The runs of BCP47Languages *)

NoOp == [op |-> "none", fileDate |-> InvalidDate, noErrors |-> FALSE,
         heldDate |-> InvalidDate, languages |-> <<>>]

NoCall == [op |-> "none", args |-> <<>>, failed |-> FALSE, value |-> <<>>,
           results |-> <<>>,
           type |-> NO_VALUE]

\* No run of parse has ended yet
NoPrevious == [runs |-> 0, data |-> <<>>, tail |-> <<>>, signals |-> <<>>]

\* updateMaps is not running
RebuildInit == updatePos = 0 /\ oldView = EmptyIndex

\* LanguageParser::LanguageParser and the locals of parse as it starts
ParserInit ==
  /\ m_lineNumber = 0
  /\ line = <<>>
  /\ state = "UNKNOWN"
  /\ dateFound = FALSE
  /\ language = NullPtr
  /\ count = 0
  /\ languageMap = <<>>
  /\ errors = <<>>
  /\ fileDate = InvalidDate
  /\ pc = "loop"
  /\ consumed = <<>>
  /\ signals = <<>>
  /\ previous = NoPrevious

\* BCP47Languages::BCP47Languages, with the static maps as the program starts
ObjectInit ==
  /\ m_datasetByDescription = <<>>
  /\ m_languageByDescription = EmptyMap /\ m_languageBySubtag = EmptyMap
  /\ m_extlangByDescription = EmptyMap /\ m_extlangBySubtag = EmptyMap
  /\ m_regionByDescription = EmptyMap /\ m_regionBySubtag = EmptyMap
  /\ m_scriptByDescription = EmptyMap /\ m_scriptBySubtag = EmptyMap
  /\ m_variantByDescription = EmptyMap /\ m_variantBySubtag = EmptyMap
  /\ m_grandfatheredByDescription = <<>> /\ m_grandfatheredByTag = EmptyMap
  /\ m_redundantByDescription = EmptyMap /\ m_redundantByTag = EmptyMap
  /\ m_fileDate = InvalidDate
  /\ emitted = <<>>
  /\ lastOp = NoOp
  /\ allocated = 0
  /\ localFile = NoFile
  /\ RebuildInit

Init ==
  /\ ObjectInit
  /\ call = NoCall
  /\ ParserInit

\* BCP47Languages::readFromLocalFile of an existing file: loadYamlFile, which
\* ends with updateMaps, and then the signal completed
ReadFromLocalFile(file) ==
  /\ allocated + Len(file.languages) <= MaxAllocated
  /\ LET dataset == loadLanguages(m_datasetByDescription, file.languages, 1, allocated)
     IN  /\ m_datasetByDescription' = dataset
         /\ SetIndex(updateMaps(Index, dataset))
  /\ m_fileDate' = IF file.hasFileDate THEN dateFromString(file.fileDate)
                   ELSE m_fileDate
  /\ allocated' = allocated + Len(file.languages)
  /\ emitted' = <<"completed">>
  /\ lastOp' = [op |-> "loadYamlFile", fileDate |-> m_fileDate',
                noErrors |-> TRUE, heldDate |-> m_fileDate, languages |-> <<>>]
  /\ UNCHANGED <<call, parserVars, localFile, rebuildVars>>

\* A slot that takes a newer dataset whether or not it carries errors
IainFileParsedIgnoringErrors(languages, newDate, noErrors) ==
  /\ IF isNewer(m_fileDate, newDate)
       THEN /\ m_fileDate' = newDate
            /\ m_datasetByDescription' = languages
            /\ localFile' = saveToLocalFile(languages, newDate)
            /\ emitted' = <<"sendMessage">>
       ELSE /\ emitted' = <<>>
            /\ UNCHANGED <<m_fileDate, m_datasetByDescription, localFile>>
  /\ lastOp' = [op |-> "iainFileParsed", fileDate |-> newDate,
                noErrors |-> noErrors, heldDate |-> m_fileDate,
                languages |-> languages]
  /\ UNCHANGED <<indexVars, allocated, call, parserVars, rebuildVars>>

\* BCP47Languages::iainFileParsed, the slot of LanguageParser::parseCompleted
\* saveToLocalFile writes the file on disk and leaves the members as they are;
\* the files a later readFromLocalFile may find are those of LocalFiles
IainFileParsed(languages, newDate, noErrors) ==
  /\ IF isNewer(m_fileDate, newDate)
       THEN IF noErrors
              THEN /\ m_fileDate' = newDate
                   /\ m_datasetByDescription' = languages
                   /\ localFile' = saveToLocalFile(languages, newDate)
                   /\ emitted' = <<"sendMessage">>
              ELSE /\ emitted' = <<"error">>
                   /\ UNCHANGED <<m_fileDate, m_datasetByDescription, localFile>>
       ELSE /\ emitted' = <<>>
            /\ UNCHANGED <<m_fileDate, m_datasetByDescription, localFile>>
  /\ lastOp' = [op |-> "iainFileParsed", fileDate |-> newDate,
                noErrors |-> noErrors, heldDate |-> m_fileDate,
                languages |-> languages]
  /\ UNCHANGED <<indexVars, allocated, call, parserVars, rebuildVars>>

Next ==
  \/ \E file \in LocalFiles : ReadFromLocalFile(file)
  \/ \E languages \in ParsedMaps, newDate \in FileDates, noErrors \in BOOLEAN :
       IainFileParsed(languages, newDate, noErrors)

Spec == Init /\ [][Next]_vars

-----------------------------------------------------------------------------
(* The queries on a loaded index: each run makes one call, which reads the  *)
(* index and changes nothing                                               *)

\* The index after the registry file was read
InitTag ==
  /\ LET dataset == loadLanguages(<<>>, RegistryFile.languages, 1, 0)
         idx == updateMaps(EmptyIndex, dataset)
     IN  /\ m_datasetByDescription = dataset
         /\ m_languageByDescription = idx.languageByDescription
         /\ m_languageBySubtag = idx.languageBySubtag
         /\ m_extlangByDescription = idx.extlangByDescription
         /\ m_extlangBySubtag = idx.extlangBySubtag
         /\ m_regionByDescription = idx.regionByDescription
         /\ m_regionBySubtag = idx.regionBySubtag
         /\ m_scriptByDescription = idx.scriptByDescription
         /\ m_scriptBySubtag = idx.scriptBySubtag
         /\ m_variantByDescription = idx.variantByDescription
         /\ m_variantBySubtag = idx.variantBySubtag
         /\ m_grandfatheredByDescription = idx.grandfatheredByDescription
         /\ m_grandfatheredByTag = idx.grandfatheredByTag
         /\ m_redundantByDescription = idx.redundantByDescription
         /\ m_redundantByTag = idx.redundantByTag
  /\ m_fileDate = dateFromString(RegistryFile.fileDate)
  /\ emitted = <<"completed">>
  /\ lastOp = [op |-> "loadYamlFile", fileDate |-> m_fileDate,
               noErrors |-> TRUE, heldDate |-> InvalidDate]
  /\ allocated = Len(RegistryFile.languages)
  /\ localFile = NoFile
  /\ RebuildInit
  /\ call = NoCall
  /\ ParserInit

TestTag(tag, ub) ==
  /\ LET r == testTag(tag, ub)
     IN  call' = [op |-> "testTag", args |-> <<tag>>, failed |-> r.failed,
                  value |-> <<>>, results |-> r.results,
                  type |-> NO_VALUE]
  /\ UNCHANGED <<objectVars, parserVars>>

LanguageTag(languageName, regionName) ==
  /\ LET r == languageTag(languageName, regionName)
     IN  call' = [op |-> "languageTag", args |-> <<languageName, regionName>>,
                  failed |-> r.failed, value |-> r.value, results |-> <<>>,
                  type |-> NO_VALUE]
  /\ UNCHANGED <<objectVars, parserVars>>

ScriptTag(languageName, scriptName, ub, junk) ==
  /\ LET r == scriptTag(languageName, scriptName, ub, junk)
     IN  call' = [op |-> "scriptTag", args |-> <<languageName, scriptName>>,
                  failed |-> r.failed, value |-> r.value, results |-> <<>>,
                  type |-> NO_VALUE]
  /\ UNCHANGED <<objectVars, parserVars>>

VariantTag(scriptName, region, ub, junk) ==
  /\ LET r == variantTag(scriptName, region, ub, junk)
     IN  call' = [op |-> "variantTag", args |-> <<scriptName, region>>,
                  failed |-> r.failed, value |-> r.value, results |-> <<>>,
                  type |-> NO_VALUE]
  /\ UNCHANGED <<objectVars, parserVars>>

ExtLangTag(extlanName, ub, junk) ==
  /\ LET r == extLangTag(extlanName, ub, junk)
     IN  call' = [op |-> "extLangTag", args |-> <<extlanName>>,
                  failed |-> r.failed, value |-> r.value, results |-> <<>>,
                  type |-> NO_VALUE]
  /\ UNCHANGED <<objectVars, parserVars>>

\* The check functions by name
checkOf(fn, value) ==
  CASE fn = "checkPrimaryLanguage" -> checkPrimaryLanguage(value)
    [] fn = "checkExtendedlanguage" -> checkExtendedlanguage(value)
    [] fn = "checkScript" -> checkScript(value)
    [] fn = "checkRegion" -> checkRegion(value)
    [] fn = "checkVariant" -> checkVariant(value)
    [] fn = "checkGrandfathered" -> checkGrandfathered(value)
    [] fn = "checkRedundant" -> checkRedundant(value)

\* The subtags and tags given to the check functions: the short strings over
\* a few letters, a long one, and registered subtags and tags of each kind
CheckInputs ==
  StringsUpTo({"q","a","b","t","z"}, MaxCheckLen)
    \cup {<<"q","a","b","c","d","e">>, <<"i">>, <<"x">>, s_en, s_afb, s_Latn, s_GB,
          s_nedis, s_iklingon, s_zhHans}

\* One call of a check function; type holds the TagType it returns
CheckSubtag(fn, value) ==
  /\ call' = [op |-> fn, args |-> <<value>>, failed |-> FALSE,
              value |-> <<>>, results |-> <<>>, type |-> checkOf(fn, value)]
  /\ UNCHANGED <<objectVars, parserVars>>

NextTag ==
  \/ call = NoCall /\ \E tag \in TagInputs, ub \in UBOutcomes : TestTag(tag, ub)
  \/ call = NoCall /\ \E languageName \in BuilderNames, regionName \in BuilderNames :
       LanguageTag(languageName, regionName)
  \/ call = NoCall /\ \E languageName \in BuilderNames, scriptName \in BuilderNames,
                         ub \in UBOutcomes, junk \in JunkStrings :
       ScriptTag(languageName, scriptName, ub, junk)
  \/ call = NoCall /\ \E scriptName \in BuilderNames, region \in BuilderNames,
                         ub \in UBOutcomes, junk \in JunkStrings :
       VariantTag(scriptName, region, ub, junk)
  \/ call = NoCall /\ \E extlanName \in BuilderNames, ub \in UBOutcomes,
                         junk \in JunkStrings :
       ExtLangTag(extlanName, ub, junk)
  \/ call = NoCall /\ \E fn \in {"checkPrimaryLanguage", "checkExtendedlanguage",
                                   "checkScript", "checkRegion", "checkVariant",
                                   "checkGrandfathered", "checkRedundant"},
                         value \in CheckInputs :
       CheckSubtag(fn, value)

SpecTag == InitTag /\ [][NextTag]_vars


-----------------------------------------------------------------------------
(* The runs of LanguageParser::parse over the lines of its data *)

SetLocals(p) ==
  /\ m_lineNumber' = p.m_lineNumber
  /\ line' = p.line
  /\ state' = p.state
  /\ dateFound' = p.dateFound
  /\ language' = p.language
  /\ count' = p.count
  /\ languageMap' = p.languageMap
  /\ errors' = p.errors
  /\ fileDate' = p.fileDate
  /\ pc' = p.pc

\* LanguageParser::LanguageParser followed by the declarations of parse
InitParser ==
  /\ ObjectInit
  /\ call = NoCall
  /\ ParserInit

\* The characters of one line and its '\n' go through the loop of parse
ParseLine(text, ub) ==
  /\ pc = "loop"
  /\ Len(consumed) < MaxLines
  \* a second run of parse reads the data of the first
  /\ previous.runs = 0
       \/ (Len(consumed) < Len(previous.data)
           /\ text = previous.data[Len(consumed) + 1])
  /\ SetLocals(processLine([Locals EXCEPT !.m_lineNumber = @ + 1,
                                          !.line = @ \o text], ub))
  /\ consumed' = Append(consumed, text)
  /\ UNCHANGED <<signals, previous, objectVars, call>>

\* The characters after the last '\n' go through the loop, and parse leaves it
EndOfData(tail) ==
  /\ pc = "loop"
  /\ previous.runs = 0 \/ (consumed = previous.data /\ tail = previous.tail)
  /\ SetLocals(endOfData([Locals EXCEPT !.line = @ \o tail]))
  /\ signals' = parseSignals(endOfData(Locals))
  /\ previous' = IF previous.runs = 0
                   THEN [previous EXCEPT !.data = consumed, !.tail = tail,
                                         !.signals = signals']
                   ELSE previous
  /\ UNCHANGED <<consumed, objectVars, call>>

\* parse is called again on the same LanguageParser, whose m_data is as it
\* was: the locals are declared anew and m_lineNumber keeps its value
ParseAgain ==
  /\ pc = "done"
  /\ previous.runs = 0
  /\ previous' = [previous EXCEPT !.runs = 1]
  /\ line' = <<>>
  /\ state' = "UNKNOWN"
  /\ dateFound' = FALSE
  /\ language' = NullPtr
  /\ count' = 0
  /\ languageMap' = <<>>
  /\ errors' = <<>>
  /\ fileDate' = InvalidDate
  /\ pc' = "loop"
  /\ consumed' = <<>>
  /\ signals' = <<>>
  /\ UNCHANGED <<m_lineNumber, objectVars, call>>

NextParser ==
  \/ \E text \in RegistryLines, ub \in UBOutcomes : ParseLine(text, ub)
  \/ \E tail \in Tails : EndOfData(tail)
  \/ ParseAgain

SpecParser == InitParser /\ [][NextParser]_vars


-----------------------------------------------------------------------------
(* Properties of testTag and of the tag builders, under SpecTag *)

\* The dash-separated subtags of a whitespace-stripped tag
dashSubtags(testValue) == IF testValue = <<>> THEN <<>> ELSE split(testValue, "-")

\* The position of subtag k in the stripped tag
RECURSIVE subtagStart(_, _)
subtagStart(parts, k) ==
  IF k <= 1 THEN 0 ELSE subtagStart(parts, k - 1) + Len(parts[k - 1]) + 1

\* C1: for every input tag (here: every tag whose dash-separated subtags are
\* all non-empty), the tokens testTag returns are exactly one token per
\* subtag; the token's length is the subtag's character count and its start is
\* the subtag's position in the whitespace-stripped tag.
C1_TokenPerSubtag ==
  (call.op = "testTag" /\ ~call.failed) =>
    LET parts == dashSubtags(removeWhitespace(call.args[1]))
    IN  (\A k \in 1..Len(parts) : parts[k] # <<>>) =>
        /\ Len(call.results) = Len(parts)
        /\ \A k \in 1..Len(parts) :
             /\ ~call.results[k].null
             /\ call.results[k].length = Len(parts[k])
             /\ call.results[k].start = subtagStart(parts, k)

\* C2: with en indexed as a language and GB as a region, testTag("en-GB")
\* yields exactly two tokens: PrimaryLanguage with text "en", then
\* RegionalLanguage with text "GB".
C2_EnGBTokens ==
  (call.op = "testTag" /\ call.args = <<s_en \o <<"-">> \o s_GB>>) =>
    /\ ~call.failed
    /\ Len(call.results) = 2
    /\ call.results[1].type = PRIMARY_LANGUAGE
    /\ call.results[1].text = s_en
    /\ call.results[2].type = REGIONAL_LANGUAGE
    /\ call.results[2].text = s_GB

\* C3: testTag never fails, whatever the tag (empty, starting with '-',
\* containing "--"): it returns, and every token it returns is a token.
C3_TestTagNeverFails ==
  call.op = "testTag" =>
    /\ ~call.failed
    /\ \A k \in 1..Len(call.results) : ~call.results[k].null

\* A name given to a tag builder that the index does not resolve
unresolved(map, name) == isNull(mapValue(map, name))

\* Some name given to the builder of the call does not resolve
someNameUnresolved ==
  CASE call.op = "languageTag" ->
         \/ unresolved(m_languageBySubtag, call.args[1])
         \/ call.args[2] # <<>> /\ unresolved(m_regionBySubtag, call.args[2])
    [] call.op = "scriptTag" ->
         \/ unresolved(m_languageBySubtag, call.args[1])
         \/ unresolved(m_scriptBySubtag, call.args[2])
    [] call.op = "variantTag" ->
         \/ unresolved(m_variantBySubtag, call.args[1])
         \/ call.args[2] # <<>> /\ unresolved(m_regionBySubtag, call.args[2])
    [] call.op = "extLangTag" -> unresolved(m_extlangBySubtag, call.args[1])
    [] OTHER -> FALSE

\* C10: languageTag, scriptTag, variantTag and extLangTag return the empty
\* string, never a partial tag and never a failure, whenever a name given to
\* them does not resolve in the index.
C10_EmptyWhenUnresolved ==
  someNameUnresolved => (~call.failed /\ call.value = <<>>)

-----------------------------------------------------------------------------
(* Properties of the refresh handler and of the index, under Spec *)

\* The records of a dataset
recordsOf(dataset) == {dataset[i].value : i \in DOMAIN dataset}

\* C7: a dataset delivered by the parser replaces the held one only if its file
\* date is strictly newer than the held file date; with an equal or older date
\* the held dataset and the held date stay as they are and no notification of
\* a replacement is emitted.
C7_RefreshOnlyIfNewer ==
  [][(lastOp'.op = "iainFileParsed" /\ lastOp'.fileDate <= m_fileDate) =>
       /\ m_datasetByDescription' = m_datasetByDescription
       /\ m_fileDate' = m_fileDate
       /\ \A i \in 1..Len(emitted') : emitted'[i] # "sendMessage"]_vars

\* A dataset with the held file date, and other records than the held ones,
\* was delivered without errors
C7_EqualDateDelivered ==
  /\ lastOp.op = "iainFileParsed"
  /\ lastOp.noErrors
  /\ lastOp.heldDate # InvalidDate
  /\ lastOp.fileDate = lastOp.heldDate
  /\ lastOp.languages # m_datasetByDescription

\* The key a record has in the subtag or tag map of its type
indexKeyOf(r) == IF r.m_type \in {GRANDFATHERED, REDUNDANT} THEN r.m_tag ELSE r.m_subtag

\* The subtags or tags for which the isXxx predicate of a type answers yes
indexedKeys(type) ==
  IF type = LANGUAGE THEN {s \in mapKeys(m_languageBySubtag) : isPrimaryLanguage(s)}
  ELSE IF type = EXTLANG THEN {s \in mapKeys(m_extlangBySubtag) : isExtLang(s)}
  ELSE IF type = SCRIPT THEN {s \in mapKeys(m_scriptBySubtag) : isScript(s)}
  ELSE IF type = REGION THEN {s \in mapKeys(m_regionBySubtag) : isRegion(s)}
  ELSE IF type = VARIANT THEN {s \in mapKeys(m_variantBySubtag) : isVariant(s)}
  ELSE IF type = GRANDFATHERED
    THEN {s \in mapKeys(m_grandfatheredByTag) : isGrandfathered(s)}
  ELSE {s \in mapKeys(m_redundantByTag) : isRedundant(s)}

\* C8: after every accepted parse the seven index pairs are rebuilt from the
\* new record set: the isXxx predicates answer yes for exactly the subtags and
\* tags of the new records of their type.
C8_IndexRebuiltOnAccept ==
  (lastOp.op = "iainFileParsed" /\ lastOp.noErrors
     /\ lastOp.heldDate < lastOp.fileDate) =>
    \A type \in LANGUAGE..REDUNDANT :
      indexedKeys(type) =
        {indexKeyOf(r) : r \in {x \in recordsOf(m_datasetByDescription) : x.m_type = type}}

\* The records of the five types that have a xxxFromSubtag lookup
subtagRecords ==
  {r \in recordsOf(m_datasetByDescription) :
     r.m_type \in {LANGUAGE, EXTLANG, SCRIPT, REGION, VARIANT}}

\* r is among the results of fromDescription for each of its descriptions
underEveryDescription(r) ==
  \A i \in 1..Len(r.m_descriptions) :
    \E j \in 1..Len(fromDescription(r.m_descriptions[i])) :
      fromDescription(r.m_descriptions[i])[j] = r

\* No other record of the dataset has the type and the subtag of r
uniqueSubtag(r) ==
  \A x \in subtagRecords : (x.m_type = r.m_type /\ x.m_subtag = r.m_subtag) => x = r

\* C9 as stated: after the index is built from the record set, every record of
\* type Language, ExtLang, Script, Region or Variant is returned by the
\* xxxFromSubtag lookup of its type on its subtag and is among the results of
\* fromDescription for each of its descriptions.
C9_EveryRecordFound ==
  lastOp.op = "loadYamlFile" =>
    \A r \in subtagRecords :
      /\ fromSubtagOfType(r.m_type, r.m_subtag) = r
      /\ underEveryDescription(r)

\* C9, amended: after the index is built from the record set, every record of
\* type Language, ExtLang, Script, Region or Variant is among the results of
\* fromDescription for each of its descriptions, and the xxxFromSubtag lookup
\* of its type on its subtag returns a record of the set with that type and
\* subtag: the record itself when no other record of the set has both.
C9_RecordFoundWhenSubtagUnique ==
  lastOp.op = "loadYamlFile" =>
    \A r \in subtagRecords :
      /\ underEveryDescription(r)
      /\ fromSubtagOfType(r.m_type, r.m_subtag) \in subtagRecords
      /\ fromSubtagOfType(r.m_type, r.m_subtag).m_type = r.m_type
      /\ fromSubtagOfType(r.m_type, r.m_subtag).m_subtag = r.m_subtag
      /\ uniqueSubtag(r) => fromSubtagOfType(r.m_type, r.m_subtag) = r

\* The index was built from a set with a record of two descriptions that its
\* lookup returns, and with two records of one type and subtag
C9_IndexBuiltWithSharedSubtag ==
  /\ lastOp.op = "loadYamlFile"
  /\ \E r \in subtagRecords :
       /\ Len(r.m_descriptions) >= 2
       /\ uniqueSubtag(r)
       /\ fromSubtagOfType(r.m_type, r.m_subtag) = r
  /\ \E r \in subtagRecords : ~uniqueSubtag(r)

-----------------------------------------------------------------------------
(* Properties of LanguageParser::parse, under SpecParser *)

\* C4: parse never aborts: for any input, a type line before the first
\* separator included, it processes the lines, terminates and delivers the
\* records, the file date and the errors.
C4_ParseNeverAborts ==
  /\ pc # "crashed"
  /\ pc = "done" =>
       (signals # <<>> /\ signals[1].signal = "parseCompleted"
          /\ signals[1].languages = languageMap /\ signals[1].fileDate = fileDate)

\* The first line read is not a file-date line with an ISO date
badFirstLine == Len(consumed) >= 1 /\ consumed[1] # l_fileDate

\* A section with a description follows the first line
sectionFollows ==
  \E i \in 2..(Len(consumed) - 1) :
    consumed[i] = l_separator /\ consumed[i + 1] = l_description

\* C5: a malformed file-date line (missing, not starting with file-date, or
\* with an unparseable value) does not lose the records of the sections after
\* it: parse still delivers them.
C5_RecordsAfterBadFileDate ==
  (pc = "done" /\ badFirstLine /\ sectionFollows) => languageMap # <<>>

\* C6: when the first line cannot be parsed as file-date: <ISO date>, an
\* invalid date value included, the error BadFileDate is recorded for that
\* line and the file date is left unset.
C6_BadFileDateRecorded ==
  (pc = "done" /\ badFirstLine) =>
    /\ \E i \in 1..Len(errors) : errors[i].key = 1 /\ errors[i].value = BAD_FILE_DATE
    /\ fileDate = InvalidDate

-----------------------------------------------------------------------------
(* Properties of the tag builders on resolving names, under SpecTag *)

C12_ScriptTagPrefix ==
  (/\ call.op = "scriptTag"
   /\ ~unresolved(m_languageBySubtag, call.args[1])
   /\ ~unresolved(m_scriptBySubtag, call.args[2])
   /\ scriptFromSubtag(call.args[2]).m_prefix # <<>>) =>
    /\ ~call.failed
    /\ call.value = scriptFromSubtag(call.args[2]).m_prefix[1] \o <<"-">>
                      \o scriptFromSubtag(call.args[2]).m_subtag \o <<"-">>
                      \o languageFromSubtag(call.args[1]).m_subtag

\* C13: extLangTag(name), for a name that resolves to an ExtLang record,
\* returns the first prefix of that record, a dash and its preferred value
\* ("ar-afb" for Gulf Arabic).
C13_ExtLangTag ==
  (call.op = "extLangTag" /\ ~unresolved(m_extlangBySubtag, call.args[1])) =>
    /\ ~call.failed
    /\ call.value = extlangFromSubtag(call.args[1]).m_prefix[1] \o <<"-">>
                      \o extlangFromSubtag(call.args[1]).m_preferredValue

-----------------------------------------------------------------------------
(* Properties of the check functions, under SpecTag *)

\* C14: a subtag is classified PrivateLanguage iff it is exactly "i", exactly
\* "x", or a three-letter code lexicographically within ["qaa", "qtz"]; a
\* string of any other length ("qb", "qabcde") is never PrivateLanguage.
C14_PrivateLanguageRange ==
  call.op = "checkPrimaryLanguage" =>
    (call.type = PRIVATE_LANGUAGE <=>
       \/ call.args[1] = <<"i">>
       \/ call.args[1] = <<"x">>
       \/ /\ Len(call.args[1]) = 3
          /\ StrGE(call.args[1], <<"q","a","a">>)
          /\ StrLE(call.args[1], <<"q","t","z">>))

\* C17: checkRedundant(v) returns REDUNDANT_LANGUAGE iff v is a registered
\* redundant tag, and NO_REDUNDANT_LANGUAGE otherwise.
C17_CheckRedundant ==
  call.op = "checkRedundant" =>
    /\ isRedundant(call.args[1]) => call.type = REDUNDANT_LANGUAGE
    /\ ~isRedundant(call.args[1]) => call.type = NO_REDUNDANT_LANGUAGE

-----------------------------------------------------------------------------
(* Properties of the classification in testTag, under SpecTag *)

\* C15: each closed candidate subtag gets the first matching classification in
\* the order private-use language, registered language, registered extlang,
\* registered script else private-use script, registered region else
\* private-use region, otherwise BadSubtag.
C15_FirstMatchPerCandidate ==
  (call.op = "testTag" /\ ~call.failed) =>
    LET parts == dashSubtags(removeWhitespace(call.args[1]))
    IN  (\A k \in 1..Len(parts) : parts[k] # <<>>) =>
          \A k \in 1..Len(parts) :
            /\ k <= Len(call.results)
            /\ ~call.results[k].null
            /\ call.results[k].type =
                 (IF checkPrimaryLanguage(parts[k]) # NO_PRIMARY_LANGUAGE
                    THEN checkPrimaryLanguage(parts[k])
                  ELSE IF checkExtendedlanguage(parts[k]) # NO_EXTENDED_LANGUAGE
                    THEN checkExtendedlanguage(parts[k])
                  ELSE IF checkScript(parts[k]) # NO_SCRIPT
                    THEN checkScript(parts[k])
                  ELSE IF checkRegion(parts[k]) # NO_REGION
                    THEN checkRegion(parts[k])
                  ELSE BAD_SUBTAG)

\* C16: an empty candidate, made by a dash at the end of the tag or by a
\* doubled dash, is closed all the same and yields a BadSubtag token of length
\* zero: there is a token for every dash-separated part of the tag.
C16_EmptyCandidateToken ==
  call.op = "testTag" =>
    LET parts == dashSubtags(removeWhitespace(call.args[1]))
    IN  /\ ~call.failed
        /\ \A k \in 1..Len(parts) :
             parts[k] = <<>> =>
               /\ k <= Len(call.results)
               /\ ~call.results[k].null
               /\ call.results[k].type = BAD_SUBTAG
               /\ call.results[k].length = 0

-----------------------------------------------------------------------------
(* updateMaps step by step, with a reader on another thread: the static     *)
(* maps are cleared and refilled in place and nothing locks them            *)

\* The subtags the reader asks for
ReaderSubtags == {s_en, s_GB, s_zz}

InitRebuild ==
  /\ ObjectInit
  /\ call = NoCall
  /\ ParserInit

\* readFromLocalFile up to the first lines of updateMaps: loadYamlFile has
\* filled the dataset and updateMaps has cleared the subtag and tag maps
StartUpdateMaps(file) ==
  /\ updatePos = 0
  /\ allocated + Len(file.languages) <= MaxAllocated
  /\ m_datasetByDescription' =
       loadLanguages(m_datasetByDescription, file.languages, 1, allocated)
  /\ m_fileDate' = IF file.hasFileDate THEN dateFromString(file.fileDate)
                   ELSE m_fileDate
  /\ allocated' = allocated + Len(file.languages)
  /\ oldView' = Index
  /\ SetIndex(clearSubtagMaps(Index))
  /\ updatePos' = 1
  /\ lastOp' = [op |-> "loadYamlFile", fileDate |-> m_fileDate',
                noErrors |-> TRUE, heldDate |-> m_fileDate, languages |-> <<>>]
  /\ emitted' = <<>>
  /\ UNCHANGED <<call, parserVars, localFile>>

\* One turn of the loops of updateMaps
UpdateMapsItem ==
  /\ updatePos \in DOMAIN m_datasetByDescription
  /\ SetIndex(indexItem(Index, m_datasetByDescription[updatePos].key,
                        m_datasetByDescription[updatePos].value))
  /\ updatePos' = updatePos + 1
  /\ UNCHANGED <<m_datasetByDescription, m_fileDate, emitted, lastOp, allocated,
                 localFile, oldView, call, parserVars>>

\* updateMaps and loadYamlFile return, and readFromLocalFile emits completed
EndUpdateMaps ==
  /\ updatePos = Len(m_datasetByDescription) + 1
  /\ updatePos' = 0
  /\ emitted' = <<"completed">>
  /\ UNCHANGED <<m_datasetByDescription, indexVars, m_fileDate, lastOp,
                 allocated, localFile, oldView, call, parserVars>>

\* checkPrimaryLanguage called from another thread. While updateMaps runs the
\* read races with its writes: it answers from the maps as they are, or fails
ConcurrentCheck(value, ub) ==
  /\ call' = [op |-> "checkPrimaryLanguage", args |-> <<value>>,
              failed |-> (updatePos # 0 /\ ub = "crash"),
              value |-> <<>>, results |-> <<>>,
              type |-> IF updatePos # 0 /\ ub = "crash" THEN NO_VALUE
                       ELSE checkPrimaryLanguage(value)]
  /\ UNCHANGED <<objectVars, parserVars>>

NextRebuild ==
  \/ \E file \in LocalFiles : StartUpdateMaps(file)
  \/ UpdateMapsItem
  \/ EndUpdateMaps
  \/ \E value \in ReaderSubtags, ub \in UBOutcomes : ConcurrentCheck(value, ub)

SpecRebuild == InitRebuild /\ [][NextRebuild]_vars

-----------------------------------------------------------------------------
(* C18 *)

\* The complete views a reader may be given: the index as it is outside
\* updateMaps; during it, the index before it started or the one it will leave
completeViews ==
  IF updatePos = 0 THEN {Index}
  ELSE {oldView, updateMaps(oldView, m_datasetByDescription)}

\* C18: a reader concurrent with a rebuild of the index never observes a
\* partially built index: every answer checkPrimaryLanguage gives is the
\* answer of the complete index before the rebuild or of the complete index
\* after it
C18_ReaderSeesCompleteIndex ==
  [][(call'.op = "checkPrimaryLanguage" /\ call' # call /\ ~call'.failed
      /\ UNCHANGED <<objectVars, parserVars>>)
       => \E view \in completeViews :
            (call'.type = PRIMARY_LANGUAGE)
              <=> (call'.args[1] \in mapKeys(view.languageBySubtag))]_vars

-----------------------------------------------------------------------------
(* C19 *)

\* The records of a delivered map without their addresses
contentOf(map) == [j \in DOMAIN map |-> [map[j] EXCEPT !.value.id = NullId]]

\* What the signals of a run deliver: the records, the file date and the
\* errors with their line numbers
deliveredBy(sigs) == [i \in DOMAIN sigs |-> [sigs[i] EXCEPT !.languages = contentOf(@)]]

\* C19: parsing is deterministic: a second run of parse on the same
\* LanguageParser object, over the same data, delivers the same records, the
\* same file date and the same error flags on the same line numbers
C19_SecondParseIdentical ==
  (pc = "done" /\ previous.runs = 1)
    => deliveredBy(signals) = deliveredBy(previous.signals)

-----------------------------------------------------------------------------
(* The local file written by one run of the program and read by the next *)

\* The record of en as LanguageParser::parse delivers it, with the flags of
\* its Scope and Deprecated fields
FlaggedEn(macrolanguage, collection, deprecated) ==
  [ParsedEn EXCEPT !.m_macrolanguage = macrolanguage,
                   !.m_collection = collection,
                   !.m_deprecated = deprecated]

\* The maps parse delivers: en with every combination of the flags, alone and
\* together with the region GB
FlaggedMaps ==
  {addUnderDescriptions(<<>>, FlaggedEn(m, c, d), 1) : m, c, d \in BOOLEAN}
  \cup {addUnderDescriptions(addUnderDescriptions(<<>>, FlaggedEn(m, c, d), 1),
                             ParsedGB, 1) : m, c, d \in BOOLEAN}

InitSave ==
  /\ ObjectInit
  /\ call = NoCall
  /\ ParserInit

\* BCP47Languages::saveToLocalFile called on the object as it is
SaveToLocalFile ==
  /\ localFile' = saveToLocalFile(m_datasetByDescription, m_fileDate)
  /\ emitted' = <<>>
  /\ lastOp' = [op |-> "saveToLocalFile", fileDate |-> m_fileDate,
                noErrors |-> TRUE, heldDate |-> m_fileDate, languages |-> <<>>]
  /\ UNCHANGED <<m_datasetByDescription, indexVars, m_fileDate, allocated,
                 rebuildVars, call, parserVars>>

\* The program is started again and readFromLocalFile finds the file the
\* earlier run wrote: a new BCP47Languages object, loadYamlFile, completed
LoadSavedFile ==
  /\ localFile # NoFile
  /\ Len(localFile.languages) <= MaxAllocated
  /\ LET dataset == loadLanguages(<<>>, localFile.languages, 1, 0)
     IN  /\ m_datasetByDescription' = dataset
         /\ SetIndex(updateMaps(EmptyIndex, dataset))
  /\ m_fileDate' = IF localFile.hasFileDate
                     THEN dateFromString(localFile.fileDate)
                     ELSE InvalidDate
  /\ allocated' = Len(localFile.languages)
  /\ emitted' = <<"completed">>
  /\ lastOp' = [op |-> "loadYamlFile", fileDate |-> m_fileDate',
                noErrors |-> TRUE, heldDate |-> InvalidDate, languages |-> <<>>]
  /\ UNCHANGED <<localFile, rebuildVars, call, parserVars>>

NextSave ==
  \/ \E languages \in FlaggedMaps, newDate \in FileDates, noErrors \in BOOLEAN :
       IainFileParsed(languages, newDate, noErrors)
  \/ LoadSavedFile
  \/ SaveToLocalFile

SpecSave == InitSave /\ [][NextSave]_vars

-----------------------------------------------------------------------------
(* C20 *)

\* C20: the local file round-trips: a file saveToLocalFile wrote, loaded by
\* loadYamlFile and saved again, has the content it had, whatever the
\* macrolanguage, collection and deprecated flags of its records
C20_SaveLoadSaveIdentical ==
  [][(lastOp.op = "loadYamlFile" /\ lastOp'.op = "saveToLocalFile")
       => localFile' = localFile]_vars

-----------------------------------------------------------------------------
(* The runs of LanguageParser::parse over the field lines of a registry     *)
(* whose file date and first separator were read                            *)

\* The most field lines read after the header
MaxFieldLines == 3

l_colon == <<":">>
l_commentsTime == <<"C","o","m","m","e","n","t","s",":"," ","a",":","b">>
l_unknown == <<"x",":"," ","y">>
l_typeBad == <<"t","y","p","e",":"," ","z","z">>
l_scopeMacro ==
  <<"s","c","o","p","e",":"," ","m","a","c","r","o","l","a","n","g","u","a","g","e">>
l_scopeDeprecated ==
  <<"s","c","o","p","e",":"," ","d","e","p","r","e","c","a","t","e","d">>

\* The lines that open every registry: the file date and a separator
HeaderLines == <<l_fileDate, l_separator>>

FieldLines ==
  {l_separator, l_colon, l_description, l_commentsTime, l_unknown, l_typeBad,
   l_scopeMacro, l_scopeDeprecated, l_junk}

\* m_lineNumber and the locals of parse as parse starts
StartLocals ==
  [m_lineNumber |-> 0, line |-> <<>>, state |-> "UNKNOWN", dateFound |-> FALSE,
   language |-> NullPtr, count |-> 0, languageMap |-> <<>>, errors |-> <<>>,
   fileDate |-> InvalidDate, pc |-> "loop"]

\* The line text and its '\n' go through the loop of parse
readLine(p, text, ub) ==
  processLine([p EXCEPT !.m_lineNumber = @ + 1, !.line = @ \o text], ub)

\* parse has read the lines of the header
InitFields ==
  /\ ObjectInit
  /\ call = NoCall
  /\ m_lineNumber = 2
  /\ line = <<>>
  /\ state = "STARTED"
  /\ dateFound = TRUE
  /\ language = BCP47Language(<<"parse", 2>>)
  /\ count = 0
  /\ languageMap = <<>>
  /\ errors = <<>>
  /\ fileDate = dateFromString(d_2020)
  /\ pc = "loop"
  /\ Locals = readLine(readLine(StartLocals, HeaderLines[1], "continue"),
                       HeaderLines[2], "continue")
  /\ consumed = HeaderLines
  /\ signals = <<>>
  /\ previous = NoPrevious

\* One field line goes through the loop of parse
ParseField(text, ub) ==
  /\ pc = "loop"
  /\ Len(consumed) < Len(HeaderLines) + MaxFieldLines
  /\ SetLocals(readLine(Locals, text, ub))
  /\ consumed' = Append(consumed, text)
  /\ UNCHANGED <<signals, previous, objectVars, call>>

NextFields ==
  \/ \E text \in FieldLines, ub \in UBOutcomes : ParseField(text, ub)
  \/ \E tail \in Tails : EndOfData(tail)

SpecFields == InitFields /\ [][NextFields]_vars

-----------------------------------------------------------------------------
(* C21 *)

\* The record l is in the map under every one of its descriptions
underAllDescriptions(map, l) ==
  \A d \in DOMAIN l.m_descriptions :
    \E i \in DOMAIN map : map[i].key = l.m_descriptions[d] /\ map[i].value.id = l.id

\* The record l is open and as the constructor leaves it
newEmptyRecord(l) == ~isNull(l) /\ l = BCP47Language(l.id)

\* C21: a %% line read after the file date closes the record in progress,
\* which is then in the result under every one of its descriptions, and opens
\* a new empty record; at the end of the input the open record is folded by
\* the same rule; and no record without descriptions is in the result
C21_SeparatorClosesRecord ==
  [][/\ (pc = "loop" /\ dateFound /\ consumed' = Append(consumed, l_separator)
         /\ pc' = "loop")
           => /\ underAllDescriptions(languageMap', language)
              /\ newEmptyRecord(language')
              /\ language'.id # language.id
     /\ (pc = "loop" /\ pc' = "done")
           => underAllDescriptions(languageMap', language)
     /\ \A i \in DOMAIN languageMap' : languageMap'[i].value.m_descriptions # <<>>]_vars

-----------------------------------------------------------------------------
(* C30 *)

\* C30: once the file date was found every line is interpreted on its own:
\* between two lines the line buffer is empty, so that nothing of an earlier
\* line is put before the next one
C30_LineBufferEmptyBetweenLines ==
  (dateFound /\ pc = "loop" /\ Len(consumed) > Len(HeaderLines)) => line = <<>>

-----------------------------------------------------------------------------
(* C22 *)

\* C22: in a recognized field line whose value holds further colons only the
\* first colon separates the name from the value: the line "Comments: a:b"
\* sets the comments of the open record to "a:b", without the field name
C22_FirstColonSeparates ==
  [][(pc = "loop" /\ line = <<>> /\ consumed' = Append(consumed, l_commentsTime)
      /\ pc' = "loop")
       => language'.m_comments = <<"a", ":", "b">>]_vars

-----------------------------------------------------------------------------
(* C23 *)

\* The errors hold the given flags for the given line
recorded(errs, lineNumber, flags) ==
  \E i \in DOMAIN errs : errs[i].key = lineNumber /\ errs[i].value = flags

\* C23: a colon line whose name is no recognized field ("x: y") is folded
\* onto the open description or comment and records no error; when no
\* multi-line field is open it records UnknownTagType for its line and its
\* content is dropped
C23_UnknownNameLine ==
  [][(pc = "loop" /\ line = <<>> /\ consumed' = Append(consumed, l_unknown)
      /\ pc' = "loop")
       => IF state \in {"DESCRIPTION", "COMMENT"}
            THEN /\ errors' = errors
                 /\ language' = continuationLine([Locals EXCEPT !.line = l_unknown]).language
            ELSE /\ recorded(errors', m_lineNumber', UNKNOWN_TAG_TYPE)
                 /\ language' = language]_vars

-----------------------------------------------------------------------------
(* C24 *)

\* Line k of the input belongs to the section of the record that the
\* separator on line n opened
inSectionOf(n, k) ==
  k > n /\ k \in DOMAIN consumed /\ \A j \in (n + 1)..(k - 1) : consumed[j] # l_separator

\* C24: a type line with a value that names no kind ("type: zz") records
\* UnknownTagType for its line and yields no record: the result of the parse
\* holds no record whose section has such a line
C24_BadTypeYieldsNoRecord ==
  pc = "done"
    => /\ \A k \in DOMAIN consumed :
            consumed[k] = l_typeBad => recorded(errors, k, UNKNOWN_TAG_TYPE)
       /\ \A i \in DOMAIN languageMap : \A k \in DOMAIN consumed :
            inSectionOf(languageMap[i].value.id[2], k) => consumed[k] # l_typeBad

-----------------------------------------------------------------------------
(* C25 *)

\* C25: a scope line with the value deprecated, collection or macrolanguage
\* sets isDeprecated, isCollection or isMacrolanguage of the current record
C25_ScopeSetsFlag ==
  [][(pc = "loop" /\ line = <<>> /\ pc' = "loop" /\ ~isNull(language))
       => /\ consumed' = Append(consumed, l_scopeMacro) => language'.m_macrolanguage
          /\ consumed' = Append(consumed, l_scopeDeprecated) => language'.m_deprecated]_vars

-----------------------------------------------------------------------------
(* C26 *)

\* C26: a line without a colon ("junk") is joined with a newline onto the
\* last description of the current record in the state DESCRIPTION, onto its
\* comments in the state COMMENT, and changes no record and no state in any
\* other state of the parser
C26_PlainLineFolded ==
  [][(pc = "loop" /\ dateFound /\ consumed' = Append(consumed, l_junk)
      /\ pc' = "loop")
       => /\ state' = state
          /\ languageMap' = languageMap
          /\ language' = IF state = "DESCRIPTION"
                           THEN [language EXCEPT
                                   !.m_descriptions[Len(language.m_descriptions)] =
                                      @ \o <<"\n">> \o l_junk]
                         ELSE IF state = "COMMENT"
                           THEN [language EXCEPT !.m_comments = @ \o <<"\n">> \o l_junk]
                         ELSE language]_vars

-----------------------------------------------------------------------------
(* C29 *)

\* C29: every line of the document is processed, the last one also when no
\* '\n' ends it: a description line at the end of the data is applied to the
\* open record before that record is folded into the result
C29_LastLineProcessed ==
  (pc = "done" /\ previous.tail = l_description /\ previous.data = consumed
   /\ consumed[Len(consumed)] = l_separator /\ line = l_description)
    => \E i \in DOMAIN languageMap : languageMap[i].key = s_UK

-----------------------------------------------------------------------------
(* C27 *)

\* C27: a parsed dataset that carries an error never replaces the held one,
\* also when its file date is newer: iainFileParsed leaves the held dataset
\* and the held file date as they are, emits no message of an update and,
\* for a newer file date, emits the signal error instead
C27_ErrorsNeverReplace ==
  [][(lastOp'.op = "iainFileParsed" /\ ~lastOp'.noErrors)
       => /\ m_datasetByDescription' = m_datasetByDescription
          /\ m_fileDate' = m_fileDate
          /\ emitted' # <<"sendMessage">>
          /\ isNewer(lastOp'.heldDate, lastOp'.fileDate) => emitted' = <<"error">>]_vars

\* A newer dataset with errors that differs from the held one was refused
C27_NewerWithErrorsRefused ==
  /\ lastOp.op = "iainFileParsed"
  /\ ~lastOp.noErrors
  /\ isNewer(lastOp.heldDate, lastOp.fileDate)
  /\ lastOp.languages # <<>>
  /\ m_datasetByDescription # lastOp.languages
  /\ m_fileDate = lastOp.heldDate
  /\ emitted = <<"error">>

-----------------------------------------------------------------------------
(* C28 *)

\* The descriptions under which the dataset holds a record of the kind
descriptionsOfKind(kind) ==
  {m_datasetByDescription[i].key :
     i \in {j \in DOMAIN m_datasetByDescription :
              m_datasetByDescription[j].value.m_type = kind}}

\* The subtags of the records of the kind in the dataset
subtagsOfKind(kind) ==
  {m_datasetByDescription[i].value.m_subtag :
     i \in {j \in DOMAIN m_datasetByDescription :
              m_datasetByDescription[j].value.m_type = kind}}

\* C28: right after updateMaps, for every kind the keys of its description
\* map are the descriptions of the records of that kind in the current
\* dataset and the keys of its subtag map are their subtags: nothing of a
\* superseded or earlier dataset is left in the index
C28_IndexMatchesDataset ==
  lastOp.op = "loadYamlFile"
    => /\ mapKeys(m_languageByDescription) = descriptionsOfKind(LANGUAGE)
       /\ mapKeys(m_languageBySubtag) = subtagsOfKind(LANGUAGE)
       /\ mapKeys(m_regionByDescription) = descriptionsOfKind(REGION)
       /\ mapKeys(m_regionBySubtag) = subtagsOfKind(REGION)
       /\ mapKeys(m_extlangByDescription) = descriptionsOfKind(EXTLANG)
       /\ mapKeys(m_extlangBySubtag) = subtagsOfKind(EXTLANG)
       /\ mapKeys(m_scriptByDescription) = descriptionsOfKind(SCRIPT)
       /\ mapKeys(m_scriptBySubtag) = subtagsOfKind(SCRIPT)
       /\ mapKeys(m_variantByDescription) = descriptionsOfKind(VARIANT)
       /\ mapKeys(m_variantBySubtag) = subtagsOfKind(VARIANT)

=============================================================================
